---- MODULE Spec2Model ----
(***************************************************************************)
(* A model of the gore session (type Session and its methods, the command  *)
(* handlers of commands.go).                                               *)
(*                                                                         *)
(* The Program is s.file.Decls (variable decls) together with the          *)
(* statement list of the cached entry-point body s.mainBody.List           *)
(* (variable body).  The checkpoint is s.lastStmts / s.lastDecls.          *)
(*                                                                         *)
(* The Go parser, the import resolver, goimports and the go toolchain are  *)
(* external: the parser is a table over a fixed set of input texts, the    *)
(* others are outcomes chosen by the environment.                          *)
(***************************************************************************)
EXTENDS Integers, Sequences, FiniteSets, TLC

VARIABLES
    decls,       \* s.file.Decls: the top-level declaration sequence
    body,        \* s.mainBody.List: statements of the cached entry-point body
    lastStmts,   \* s.lastStmts
    lastDecls,   \* s.lastDecls
    sharedDecls, \* the import declaration in s.lastDecls is the very one in
                 \* s.file.Decls: storeCode copies the pointers, a new parse
                 \* of the file makes new declarations
    scopeMain,   \* s.file.Scope declares main: the text s.file was parsed
                 \* from declared it (mainFunc looks main up there)
    autoImport,  \* s.autoImport
    extraFilePaths, \* s.extraFilePaths: the scratch files of the included files
    nEvals,      \* history: the number of calls of Eval so far
    pre,         \* history: body and decls when the last Eval was submitted
    last,        \* history: what the last Eval did
    out,         \* history: what the last Eval returned, wrote to s.stderr
                 \* and handed to go run
    completion,  \* history: the last call of completeWord and its candidates
    included,    \* history: the scratch paths of all files included so far
    submitted    \* history: the inputs and import paths given since the
                 \* session was initialised, and those given before that

vars == <<decls, body, lastStmts, lastDecls, sharedDecls, scopeMain, autoImport,
          extraFilePaths,
          nEvals, pre, last, out, completion, included, submitted>>

(***************************************************************************)
(* Bounds                                                                  *)
(***************************************************************************)
\* The sessions explored make at most MaxEvals calls of Eval.
MaxEvals == 2
\* the number of calls of Eval in a session of commands
MaxCommands == 3

\* The sessions of SpecClear make at most MaxSteps calls of Eval and include
\* at most MaxFiles files.
MaxSteps == 3
MaxFiles == 1

(***************************************************************************)
(* Syntax trees                                                            *)
(***************************************************************************)
printerName == "__gore_p"

\* printerPkgs: the first importable pretty printer; "fmt" always is.
PrinterPkg == "fmt"

\* An *ast.GenDecl holding the import specs, in order.
Imp(paths) ==
    [kind |-> "import", name |-> "", ver |-> 0, own |-> FALSE, paths |-> paths,
     stmts |-> <<>>]

\* An *ast.FuncDecl.  ver identifies the text of the declaration.  own is
\* TRUE for a declaration of main whose Body is not the block s.mainBody
\* points to, and stmts are then the statements of that Body; the body of
\* every other main declaration is s.mainBody.
Fn(name, ver, own) ==
    [kind |-> "func", name |-> name, ver |-> ver, own |-> own, paths |-> <<>>,
     stmts |-> <<>>]

\* An *ast.BadDecl: what the parser leaves in the tree where a token stands
\* that starts no declaration (text that begins with func gives an
\* *ast.FuncDecl, never this).
Bad ==
    [kind |-> "bad", name |-> "", ver |-> 0, own |-> FALSE, paths |-> <<>>,
     stmts |-> <<>>]

HasBad(ds) == \E i \in 1..Len(ds) : ds[i].kind = "bad"

\* Statements: k is the node type, a the operands that matter to the
\* splicer (call arguments, left-hand sides), t the remaining text.
PrintCall(args) == [k |-> "print", a |-> args, t |-> printerName]
ExprStmt(e)     == [k |-> "expr", a |-> <<e>>, t |-> ""]
AssignStmt(lhs, t) == [k |-> "assign", a |-> lhs, t |-> t]

\* The program text of initialSourceTemplate, parsed.
InitialDecls == << Imp(<<PrinterPkg>>), Fn(printerName, 0, FALSE), Fn("main", 0, FALSE) >>

\* A declaration of main with a Body of its own: ver 1 is the one typed by
\* the user, ver 0 one that a parse of the printed Program made.
OwnMain(ver, stmts) == [Fn("main", ver, TRUE) EXCEPT !.stmts = stmts]

\* "func main() { println(0) }"
TypedMain == OwnMain(1, << ExprStmt("println(0)") >>)

\* The body of a main declaration that has its own.
OwnBody(d) == d.stmts

IsFuncNamed(d, n) == d.kind = "func" /\ d.name = n

RECURSIVE FuncIndexFrom(_, _, _)
\* the first index >= i of a function declaration named n in ds, 0 if none
FuncIndexFrom(ds, n, i) ==
    IF i > Len(ds) THEN 0
    ELSE IF IsFuncNamed(ds[i], n) THEN i
    ELSE FuncIndexFrom(ds, n, i + 1)

FuncIndex(ds, n) == FuncIndexFrom(ds, n, 1)

HasMain(ds) == FuncIndex(ds, "main") # 0

\* The declaration of main that is serialized with ds.
MainDeclOf(ds) == ds[FuncIndex(ds, "main")]

\* The statements of the entry point that is serialized from (ds, b); none
\* when ds declares no main.
VisibleBody(ds, b) ==
    IF ~HasMain(ds) THEN <<>>
    ELSE IF MainDeclOf(ds).own THEN OwnBody(MainDeclOf(ds)) ELSE b

\* printer.Fprint(s.file): the declarations in order, main with its body.
Source(ds, b) ==
    [i \in 1..Len(ds) |->
        [kind |-> ds[i].kind, name |-> ds[i].name,
         ver |-> IF IsFuncNamed(ds[i], "main") THEN 0 ELSE ds[i].ver,
         paths |-> ds[i].paths,
         stmts |-> IF IsFuncNamed(ds[i], "main")
                   THEN (IF ds[i].own THEN OwnBody(ds[i]) ELSE b)
                   ELSE <<>>]]

(***************************************************************************)
(* The session as a record, and the methods of Session as operators on it  *)
(***************************************************************************)
Sess(ds, b, ls, ld) == [decls |-> ds, body |-> b, lastStmts |-> ls, lastDecls |-> ld]

\* the session in the current state
Cur ==
    [decls |-> decls, body |-> body, lastStmts |-> lastStmts,
     lastDecls |-> lastDecls, sharedDecls |-> sharedDecls,
     scopeMain |-> scopeMain, extraFilePaths |-> extraFilePaths]

\* quickfix.go is not part of the sources at hand; the specification gives
\* the quick-fix steps no effect on the statement or declaration sequence.
clearQuickFix(s) == s
doQuickFix(s) == s

\* storeCode: s.lastDecls gets the pointers of s.file.Decls
storeCode(s) ==
    [s EXCEPT !.lastStmts = s.body,
              !.lastDecls = s.decls,
              !.sharedDecls = TRUE]

appendStatements(s, stmts) ==
    [s EXCEPT !.body = s.body \o stmts]

RECURSIVE RestoreDecls_NoContinue(_, _)
\* restoreCode without the continue: the current declaration is kept next
\* to the checkpoint's
RestoreDecls_NoContinue(ds, lds) ==
    IF ds = <<>> THEN <<>>
    ELSE LET d == Head(ds)
             same == FuncIndex(lds, d.name)
         IN  (IF d.kind = "func" /\ d.name # "main" /\ same # 0
              THEN << lds[same] >> ELSE <<>>)
             \o << d >> \o RestoreDecls_NoContinue(Tail(ds), lds)

RECURSIVE RestoreDecls(_, _)
\* the loop of restoreCode over s.file.Decls
RestoreDecls(ds, lds) ==
    IF ds = <<>> THEN <<>>
    ELSE LET d == Head(ds)
             same == FuncIndex(lds, d.name)
         IN  (IF d.kind = "func" /\ d.name # "main"
              THEN (IF same # 0 THEN << lds[same] >> ELSE <<>>)
              ELSE << d >>)
             \o RestoreDecls(Tail(ds), lds)

\* restoreCode putting the checkpoint's statements behind the current ones
restoreCode_Append(s) ==
    [s EXCEPT !.body = s.body \o s.lastStmts,
              !.decls = RestoreDecls(s.decls, s.lastDecls)]

restoreCode(s) ==
    [s EXCEPT !.body = s.lastStmts,
              !.decls = RestoreDecls(s.decls, s.lastDecls)]

(***************************************************************************)
(* The inputs and what the Go parser and scanner make of them              *)
(***************************************************************************)
InExpr1    == "1"
InExprOs   == "os.Args"
InAssign   == "x, _, y := f()"
InDiscard  == "_, _, _ = f()"
InNoAssign == "x := 1; println(x)"
InFuncF1   == "func f() (a, b, c int) { return }"
InFuncF2   == "func f() (a, b, c int) { a = 1; return }"
InFuncG    == "func g() {}"
InFuncMain == "func main() { println(0) }"
InFuncP    == "func __gore_p(xx ...interface{}) {}"
InImport   == "import \"os\""
InTwoFuncs == "func a() {}; func b() {}"
InOpen     == "if true {"
InIllegal  == "#"

ExprInputs == {InExpr1, InExprOs}
StmtInputs == {InAssign, InDiscard, InNoAssign}
FuncInputs == {InFuncF1, InFuncF2, InFuncG, InFuncMain, InFuncP}
BadInputs  == {InImport, InTwoFuncs, InOpen, InIllegal}
CodeInputs == ExprInputs \cup StmtInputs \cup FuncInputs \cup BadInputs

\* parser.ParseExpr(in)
ParseExpr(in) ==
    IF in \in ExprInputs THEN [err |-> FALSE, expr |-> in]
    ELSE [err |-> TRUE, expr |-> ""]

\* parser.ParseFile of "package P; func F() { <in> }", and F's Body.List.
\* An expression is also a statement list of one expression statement.
ParseStmts(in) ==
    CASE in \in ExprInputs -> [err |-> FALSE, stmts |-> << ExprStmt(in) >>]
      [] in = InAssign   -> [err |-> FALSE,
                             stmts |-> << AssignStmt(<<"x", "_", "y">>, ":= f()") >>]
      [] in = InDiscard  -> [err |-> FALSE,
                             stmts |-> << AssignStmt(<<"_", "_", "_">>, "= f()") >>]
      [] in = InNoAssign -> [err |-> FALSE,
                             stmts |-> << AssignStmt(<<"x">>, ":= 1"), ExprStmt("println(x)") >>]
      [] OTHER           -> [err |-> TRUE, stmts |-> <<>>]

\* parser.ParseFile of "package P; <in>", and its Decls
ParseDecls(in) ==
    CASE in = InFuncF1   -> [err |-> FALSE, decls |-> << Fn("f", 1, FALSE) >>]
      [] in = InFuncF2   -> [err |-> FALSE, decls |-> << Fn("f", 2, FALSE) >>]
      [] in = InFuncG    -> [err |-> FALSE, decls |-> << Fn("g", 1, FALSE) >>]
      [] in = InFuncMain -> [err |-> FALSE, decls |-> << TypedMain >>]
      [] in = InFuncP    -> [err |-> FALSE, decls |-> << Fn(printerName, 1, FALSE) >>]
      [] in = InImport   -> [err |-> FALSE, decls |-> << Imp(<<"os">>) >>]
      [] in = InTwoFuncs -> [err |-> FALSE, decls |-> << Fn("a", 1, FALSE), Fn("b", 1, FALSE) >>]
      [] OTHER           -> [err |-> TRUE, decls |-> <<>>]

\* parseTokens: TRUE when the scanner meets token.ILLEGAL
parseTokens(in) == in = InIllegal

(***************************************************************************)
(* The splicers                                                            *)
(***************************************************************************)
evalExpr(s, in) ==
    LET p == ParseExpr(in)
    IN  IF p.err THEN [s |-> s, err |-> TRUE]
        ELSE [s |-> appendStatements(s, << PrintCall(<<p.expr>>) >>), err |-> FALSE]

isNamedIdent(e, name) == e = name

\* the loop without the test for "_"
NonBlank_All(lhs) == lhs

\* the loop of evalStmt over assign.Lhs
NonBlank(lhs) == SelectSeq(lhs, LAMBDA v : ~isNamedIdent(v, "_"))

evalStmt(s, in) ==
    LET p == ParseStmts(in)
        stmts == p.stmts
        lastStmt == stmts[Len(stmts)]
        vs == NonBlank(lastStmt.a)
        all == IF Len(stmts) > 0 /\ lastStmt.k = "assign" /\ Len(vs) > 0
               THEN stmts \o << PrintCall(vs) >>
               ELSE stmts
    IN  IF p.err THEN [s |-> s, err |-> TRUE]
        ELSE [s |-> appendStatements(s, all), err |-> FALSE]

\* append(s.file.Decls[:i], s.file.Decls[i+1:]...)
RemoveAt(ds, i) == SubSeq(ds, 1, i - 1) \o SubSeq(ds, i + 1, Len(ds))

\* evalFunc without the removal of the declaration of the same name
evalFunc_Append(s, in) ==
    LET p == ParseDecls(in)
        newDecl == p.decls[1]
    IN  IF p.err THEN [s |-> s, err |-> TRUE]
        ELSE IF Len(p.decls) # 1 THEN [s |-> s, err |-> TRUE]
        ELSE IF newDecl.kind # "func" THEN [s |-> s, err |-> TRUE]
        ELSE [s |-> [s EXCEPT !.decls = s.decls \o << newDecl >>], err |-> FALSE]

\* evalFunc without the test of len(f.Decls)
evalFunc_FirstDecl(s, in) ==
    LET p == ParseDecls(in)
        newDecl == p.decls[1]
        i == FuncIndex(s.decls, newDecl.name)
        kept == IF i # 0 THEN RemoveAt(s.decls, i) ELSE s.decls
    IN  IF p.err THEN [s |-> s, err |-> TRUE]
        ELSE IF newDecl.kind # "func" THEN [s |-> s, err |-> TRUE]
        ELSE [s |-> [s EXCEPT !.decls = kept \o << newDecl >>], err |-> FALSE]

evalFunc(s, in) ==
    LET p == ParseDecls(in)
        newDecl == p.decls[1]
        i == FuncIndex(s.decls, newDecl.name)
        kept == IF i # 0 THEN RemoveAt(s.decls, i) ELSE s.decls
    IN  IF p.err THEN [s |-> s, err |-> TRUE]
        ELSE IF Len(p.decls) # 1 THEN [s |-> s, err |-> TRUE]
        ELSE IF newDecl.kind # "func" THEN [s |-> s, err |-> TRUE]
        ELSE [s |-> [s EXCEPT !.decls = kept \o << newDecl >>], err |-> FALSE]

\* Eval trying the statement list before the expression
Classify_StmtFirst(s, in) ==
    LET e == evalExpr(s, in)
        st == evalStmt(s, in)
        f == evalFunc(s, in)
    IN  IF ~st.err THEN [s |-> st.s, kind |-> "stmt"]
        ELSE IF ~e.err THEN [s |-> e.s, kind |-> "expr"]
        ELSE IF ~f.err THEN [s |-> f.s, kind |-> "func"]
        ELSE IF parseTokens(in) THEN [s |-> s, kind |-> "syntax"]
        ELSE [s |-> s, kind |-> "continue"]

\* Eval: the interpretations in order.  kind names the branch taken.
Classify(s, in) ==
    LET e == evalExpr(s, in)
        st == evalStmt(s, in)
        f == evalFunc(s, in)
    IN  IF ~e.err THEN [s |-> e.s, kind |-> "expr"]
        ELSE IF ~st.err THEN [s |-> st.s, kind |-> "stmt"]
        ELSE IF ~f.err THEN [s |-> f.s, kind |-> "func"]
        ELSE IF parseTokens(in) THEN [s |-> s, kind |-> "syntax"]
        ELSE [s |-> s, kind |-> "continue"]

(***************************************************************************)
(* Imports                                                                 *)
(***************************************************************************)
\* s.types.Importer.Import(path) succeeds for these paths
Resolvable == {"fmt", "os"}

\* the order in which goimports writes the import specs
PkgOrder == << "fmt", "os" >>

ImportIndex(ds) ==
    IF \E i \in 1..Len(ds) : ds[i].kind = "import"
    THEN CHOOSE i \in 1..Len(ds) :
            ds[i].kind = "import" /\ \A j \in 1..(i - 1) : ds[j].kind # "import"
    ELSE 0

ImportsOf(ds) == IF ImportIndex(ds) = 0 THEN <<>> ELSE ds[ImportIndex(ds)].paths

InSeq(x, seq) == \E i \in 1..Len(seq) : seq[i] = x

\* AddImport without the test for an existing import of path
AddImport_NoDedup(ds, path) ==
    LET i == ImportIndex(ds)
        ps == ds[i].paths
    IN  IF i = 0 THEN << Imp(<<path>>) >> \o ds
        ELSE [ds EXCEPT ![i] = Imp(<< ps[1], path >> \o Tail(ps))]

\* astutil.AddImport(s.fset, s.file, path): nothing when path is imported
\* already; else a new spec right after the best matching spec, which is
\* the first one for paths without a slash; a new import declaration in
\* front when the file has none.
AddImport(ds, path) ==
    LET i == ImportIndex(ds)
        ps == ds[i].paths
    IN  IF i = 0 THEN << Imp(<<path>>) >> \o ds
        ELSE IF InSeq(path, ps) THEN ds
        ELSE [ds EXCEPT ![i] = Imp(<< ps[1], path >> \o Tail(ps))]

\* actionImport with a single package.  AddImport puts the new spec into the
\* import declaration the file has: a checkpoint that holds that very
\* declaration shows the new spec too.
ImportOne(s, path) ==
    LET ds == AddImport(s.decls, path)
        j == ImportIndex(s.lastDecls)
    IN  IF path \notin Resolvable THEN [s |-> s, err |-> TRUE]
        ELSE [s |-> [s EXCEPT !.decls = ds,
                              !.lastDecls =
                                  IF s.sharedDecls /\ ImportIndex(s.decls) # 0 /\ j # 0
                                  THEN [@ EXCEPT ![j] = ds[ImportIndex(ds)]]
                                  ELSE @],
              err |-> FALSE]

RECURSIVE ImportEach(_, _)
\* actionImport with several packages: one after the other, stopping at
\* the first that fails
ImportEach(s, fields) ==
    IF fields = <<>> THEN [s |-> s, err |-> FALSE]
    ELSE LET r == ImportOne(s, Head(fields))
         IN  IF r.err THEN r ELSE ImportEach(r.s, Tail(fields))

\* arg is given as its fields, quotes trimmed
actionImport(s, fields) ==
    IF fields = <<>> THEN [s |-> s, err |-> TRUE]
    ELSE IF Len(fields) > 1 THEN ImportEach(s, fields)
    ELSE ImportOne(s, fields[1])

\* the packages a statement or a declaration refers to
PkgsOfStmt(st) == IF InSeq(InExprOs, st.a) THEN {"os"} ELSE {}
PkgsOfDecl(d) == IF d = Fn(printerName, 0, FALSE) THEN {PrinterPkg} ELSE {}

PkgsOf(ds, b) ==
    UNION {PkgsOfDecl(ds[i]) : i \in 1..Len(ds)}
      \cup UNION {PkgsOfStmt(b[i]) : i \in 1..Len(b)}

\* the file Run prints imports a package that nothing in it uses: the
\* compiler rejects it, go run fails
UnusedImport(ds, b) ==
    \E i \in 1..Len(ds) :
        /\ ds[i].kind = "import"
        /\ \E j \in 1..Len(ds[i].paths) :
              ds[i].paths[j] \notin PkgsOf(ds, VisibleBody(ds, b))

\* the outcomes of fixImports: done; an error returned by printer.Fprint or
\* by imports.Process; an error returned by parser.ParseFile for the text
\* imports.Process made
FixOutcomes == {"ok", "error", "unparsed"}

\* the declarations of the text imports.Process makes of the Program: the
\* imports it uses in one declaration, the others in order, main being m
Normalized(s, m) ==
    LET used == PkgsOf(s.decls, VisibleBody(s.decls, s.body))
        imps == SelectSeq(PkgOrder, LAMBDA q : q \in used)
        others == SelectSeq(s.decls, LAMBDA d : d.kind # "import")
    IN  (IF imps = <<>> THEN <<>> ELSE << Imp(imps) >>)
          \o [i \in 1..Len(others) |->
                 IF IsFuncNamed(others[i], "main") THEN m ELSE others[i]]

\* fixImports: the serialized program with exactly the imports it uses,
\* parsed again; s.mainBody is the body of the new tree's main.  The tree
\* is assigned to s.file before the error of the parser is looked at,
\* s.mainBody only after it: with that error s.file is the tree the parser
\* built (taken to be the whole of it) and s.mainBody the block of the old
\* tree.  Text with the word BadDecl in it is an error for imports.Process.
fixImports(s, fo) ==
    LET vis == VisibleBody(s.decls, s.body)
    IN  IF fo = "error" \/ HasBad(s.decls) THEN s
        ELSE IF fo = "unparsed"
        THEN [s EXCEPT !.decls = Normalized(s, OwnMain(0, vis)),
                       !.sharedDecls = FALSE,
                       !.scopeMain = TRUE]
        ELSE [s EXCEPT !.decls = Normalized(s, Fn("main", 0, FALSE)),
                       !.body = vis,
                       !.sharedDecls = FALSE,
                       !.scopeMain = TRUE]

(***************************************************************************)
(* Errors, and what Eval hands to the toolchain                            *)
(***************************************************************************)
\* an error value: msg is its text, cmd the name of the command that
\* invokeCommand put in front of it ("" when it is not wrapped)
Err(cmd, msg) == [cmd |-> cmd, msg |-> msg]

NoErr       == Err("", "nil")
ErrContinue == Err("", "<continue input>")
ErrQuit     == Err("", "<quit session>")
ErrCmdRun   == Err("", "<command failed>")
ErrSyntax   == Err("", "illegal token")

\* no error value: mainFunc looks main up in s.file.Scope and takes the Decl
\* of what it finds; when the scope has no main that is a nil pointer
\* dereference, and the call of Eval does not return
Panic == Err("", "panic: nil pointer dereference")

tempFilePath == "gore_session.go"

\* Run: the files given to goRun
goRunFiles(s) == s.extraFilePaths \o << tempFilePath >>

\* what one call of Eval returned, wrote to s.stderr itself, and the files
\* of the call of goRun it made (<<>> when it made none)
Out(ret, stderr, files) == [ret |-> ret, stderr |-> stderr, files |-> files]

(***************************************************************************)
(* Eval                                                                    *)
(***************************************************************************)
\* what Run returns: nil, an *exec.ExitError with status 2, or an
\* *exec.ExitError with another status (an error that is no *exec.ExitError
\* takes the same path through Eval as the latter)
RunOutcomes == {"ok", "exit2", "exit1"}

\* restoreCode called after every failure
ShouldRestore_AnyFailure(ro) == ro # "ok"

\* Eval: the condition under which restoreCode is called
ShouldRestore(ro) == ro = "exit2"

\* Eval of an input that is not a command.  fo and ro are the outcomes of
\* fixImports and of Run.
EvalCode(s, in, auto, fo, ro) ==
    LET s1 == storeCode(clearQuickFix(s))
        c == Classify(s1, in)
        s2 == IF auto THEN fixImports(c.s, fo) ELSE c.s
        s3 == doQuickFix(s2)
        s4 == IF ShouldRestore(ro) THEN restoreCode(s3) ELSE s3
    IN  IF c.kind = "syntax"
        THEN [s |-> s1, kind |-> c.kind, err |-> "syntax", ran |-> FALSE,
              restored |-> FALSE, spliced |-> s1, src |-> <<>>, files |-> <<>>]
        ELSE IF c.kind = "continue"
        THEN [s |-> s1, kind |-> c.kind, err |-> "ErrContinue", ran |-> FALSE,
              restored |-> FALSE, spliced |-> s1, src |-> <<>>, files |-> <<>>]
        ELSE [s |-> s4, kind |-> c.kind,
              err |-> IF ro = "ok" THEN "nil" ELSE "ErrCmdRun", ran |-> TRUE,
              restored |-> ShouldRestore(ro), spliced |-> c.s,
              src |-> Source(s3.decls, s3.body), files |-> goRunFiles(s3)]

\* init leaving the checkpoint as it is
init_KeepCheckpoint(s) ==
    [s EXCEPT !.decls = InitialDecls,
              !.body = <<>>,
              !.sharedDecls = FALSE,
              !.scopeMain = TRUE,
              !.extraFilePaths = <<>>]

\* init, as actionClear calls it: the template parsed again, no included
\* files, no checkpoint
init(s) ==
    [s EXCEPT !.decls = InitialDecls,
              !.body = <<>>,
              !.lastStmts = <<>>,
              !.lastDecls = <<>>,
              !.sharedDecls = FALSE,
              !.scopeMain = TRUE,
              !.extraFilePaths = <<>>]

\* the type checker in actionType: a type, or none
TypeOutcomes == {"ok", "notype"}

\* actionType: arg is the expression text, "" when there is none
actionType(s, arg, to) ==
    LET s1 == storeCode(clearQuickFix(s))
        e == evalExpr(s1, arg)
    IN  IF arg = "" THEN [s |-> s, err |-> TRUE]
        ELSE IF e.err THEN [s |-> restoreCode(s1), err |-> TRUE]
        ELSE [s |-> restoreCode(e.s), err |-> to # "ok"]

(***************************************************************************)
(* Included files                                                          *)
(***************************************************************************)
\* the files a session is asked to include: their name and their imports
IncludeFiles ==
    { [name |-> "a.go", imports |-> << "os" >>],
      [name |-> "b.go", imports |-> << "nopkg", "fmt" >>] }

\* the names ioutil.TempFile gives the scratch copies, one after the other
ExtPaths == << "gore_extarnal_1.go", "gore_extarnal_2.go", "gore_extarnal_3.go" >>

RECURSIVE importPackages(_, _)
\* importPackages: actionImport for each import of the file, its error
\* dropped
importPackages(s, paths) ==
    IF paths = <<>> THEN s
    ELSE importPackages(actionImport(s, << Head(paths) >>).s, Tail(paths))

\* importFile: the copy without main is written to ext and registered
importFile(s, ext) ==
    [s EXCEPT !.extraFilePaths = s.extraFilePaths \o << ext >>]

\* what happens to the file: it is read and parsed, or it is not
IncludeOutcomes == {"ok", "unreadable"}

\* includeFile
includeFile(s, f, o, ext) ==
    IF o # "ok" THEN s
    ELSE importFile(importPackages(s, f.imports), ext)

(***************************************************************************)
(* The commands                                                            *)
(***************************************************************************)
\* The registry of commands.go, in order.  name is the commandName; req are
\* its letters in front of the bracket, opt those inside; arg is the
\* descriptor's arg; action names the handler.
commands ==
    << [name |-> "i[mport]", req |-> <<"i">>, opt |-> <<"m", "p", "o", "r", "t">>,
        arg |-> "<package>", action |-> "actionImport"],
       [name |-> "t[ype]", req |-> <<"t">>, opt |-> <<"y", "p", "e">>,
        arg |-> "<expr>", action |-> "actionType"],
       [name |-> "print", req |-> <<"p", "r", "i", "n", "t">>, opt |-> <<>>,
        arg |-> "", action |-> "actionPrint"],
       [name |-> "w[rite]", req |-> <<"w">>, opt |-> <<"r", "i", "t", "e">>,
        arg |-> "[<file>]", action |-> "actionWrite"],
       [name |-> "clear", req |-> <<"c", "l", "e", "a", "r">>, opt |-> <<>>,
        arg |-> "", action |-> "actionClear"],
       [name |-> "d[oc]", req |-> <<"d">>, opt |-> <<"o", "c">>,
        arg |-> "<expr or pkg>", action |-> "actionDoc"],
       [name |-> "h[elp]", req |-> <<"h">>, opt |-> <<"e", "l", "p">>,
        arg |-> "", action |-> "actionHelp"],
       [name |-> "q[uit]", req |-> <<"q">>, opt |-> <<"u", "i", "t">>,
        arg |-> "", action |-> "actionQuit"],
       [name |-> "e[dit]", req |-> <<"e">>, opt |-> <<"d", "i", "t">>,
        arg |-> "[cmd]", action |-> "actionEdit"],
       [name |-> "r[un]", req |-> <<"r">>, opt |-> <<"u", "n">>,
        arg |-> "", action |-> "actionRun"] >>

\* the command name without its brackets
FullName(c) == c.req \o c.opt

\* strings.HasPrefix on texts given letter by letter
HasPrefix(t, prefix) ==
    /\ Len(prefix) <= Len(t)
    /\ SubSeq(t, 1, Len(prefix)) = prefix

\* commandName.matches is not part of the sources at hand; the bracket
\* notation of the registry gives it: the letters in front of the bracket
\* are required, those inside may follow.
matches(c, t) == HasPrefix(t, c.req) /\ HasPrefix(FullName(c), t)

\* the index of the first command of the registry that matches, 0 if none
CommandIndex(t) ==
    IF \E i \in 1..Len(commands) : matches(commands[i], t)
    THEN CHOOSE i \in 1..Len(commands) :
            /\ matches(commands[i], t)
            /\ \A j \in 1..(i - 1) : ~matches(commands[j], t)
    ELSE 0

\* The registry as completion reads it.  init of commands.go assigns the ten
\* commands above; TestSession_completeWord (complete_test.go 33-47) finds an
\* eleventh behind them, define, completed with a blank behind it: it takes
\* an arg.  The code that registers define and its handler are not part of
\* the sources at hand, so the sessions below never invoke it.
defineCommand ==
    [name |-> "define", req |-> <<"d", "e", "f", "i", "n", "e">>, opt |-> <<>>,
     arg |-> "<arg>", action |-> "actionDefine"]

registeredCommands == commands \o << defineCommand >>

\* completeWord is not part of the sources at hand; TestSession_completeWord
\* gives its result for a line that ends in a directive prefix: lead is the
\* run of colons and blanks in front, name the letters typed behind it.  One
\* candidate for each registered command whose name begins with name, in
\* the order of registration: lead, the full name, and a blank when the
\* command has an arg.
Candidate(lead, c) ==
    lead \o FullName(c) \o (IF c.arg # "" THEN << " " >> ELSE <<>>)

\* a completion that looks at the letters in front of the bracket only
completeWord_RequiredLetters(lead, name) ==
    LET hits == SelectSeq(registeredCommands,
                          LAMBDA c : HasPrefix(c.req, name) \/ HasPrefix(name, c.req))
    IN  [i \in 1..Len(hits) |-> Candidate(lead, hits[i])]

completeWord(lead, name) ==
    LET hits == SelectSeq(registeredCommands, LAMBDA c : HasPrefix(FullName(c), name))
    IN  [i \in 1..Len(hits) |-> Candidate(lead, hits[i])]

\* what a handler gives back: the session, the error it returns, the files
\* of its call of goRun
Done(s, err, files) == [s |-> s, err |-> err, files |-> files]

\* what the environment does to a handler: o is the outcome of the type
\* checker, of the file system, of go doc or of the editor, ro that of Run,
\* text the program text the editor leaves behind
Env(o, ro, text) == [o |-> o, ro |-> ro, text |-> text]

\* the error Run returns
RunError(ro) ==
    CASE ro = "ok"    -> NoErr
      [] ro = "exit2" -> Err("", "exit status 2")
      [] OTHER        -> Err("", "exit status 1")

\* s.source: mainFunc is called for normalizeNodePos (not part of the
\* sources at hand, taken to change positions only) before the Program is
\* printed
sourcePanics(s) == ~s.scopeMain

actionPrint(s) ==
    IF sourcePanics(s) THEN Done(s, Panic, <<>>) ELSE Done(s, NoErr, <<>>)

WriteOutcomes == {"ok", "error"}

actionWrite(s, env) ==
    IF sourcePanics(s) THEN Done(s, Panic, <<>>)
    ELSE Done(s, IF env.o = "ok" THEN NoErr ELSE Err("", "write failed"), <<>>)

actionHelp(s) == Done(s, NoErr, <<>>)

actionQuit(s) == Done(s, ErrQuit, <<>>)

actionRun(s, env) == Done(s, RunError(env.ro), goRunFiles(s))

\* the outcomes of actionDoc behind the expression: documented, no object
\* to document, go doc failing
DocOutcomes == {"ok", "nodoc", "error"}

\* actionDoc without the deferred restoreCode
actionDoc_NoRestore(s, arg, env) ==
    LET s1 == storeCode(clearQuickFix(s))
        e == evalExpr(s1, arg)
    IN  IF arg = "" THEN Done(s, Err("", "argument is required"), <<>>)
        ELSE IF e.err THEN Done(s1, Err("", "parse error"), <<>>)
        ELSE Done(e.s, IF env.o = "ok" THEN NoErr ELSE Err("", "no documentation"), <<>>)

actionDoc(s, arg, env) ==
    LET s1 == storeCode(clearQuickFix(s))
        e == evalExpr(s1, arg)
    IN  IF arg = "" THEN Done(s, Err("", "argument is required"), <<>>)
        ELSE IF e.err THEN Done(restoreCode(s1), Err("", "parse error"), <<>>)
        ELSE Done(restoreCode(e.s),
                  IF env.o = "ok" THEN NoErr ELSE Err("", "no documentation"), <<>>)

\* what the editor does: none found, it exits with an error, it exits
\* normally
EditOutcomes == {"noeditor", "failed", "saved"}

\* the text in edit.go when the editor has exited: the source as written,
\* the template with println(0) in main, the latter followed by a line that
\* holds a single ")": a token that starts no declaration
EditTexts == {"same", "new", "junk"}

\* parser.ParseFile of the text read back: the tree, the statements of its
\* main, whether its scope declares main, the error.  With a syntax error
\* the tree is the partial one.  The printer writes an *ast.BadDecl as the
\* word BadDecl, which is no declaration: the source of a tree that holds
\* one does not parse, and what the parser skips behind it (all up to the
\* next const, type or var, here the end of the text) is in no declaration
\* of the partial tree.
ParseEdited(s, text) ==
    CASE text = "same" /\ HasBad(s.decls) ->
            LET k == CHOOSE i \in 1..Len(s.decls) :
                        /\ s.decls[i].kind = "bad"
                        /\ \A j \in 1..(i - 1) : s.decls[j].kind # "bad"
                front == SubSeq(s.decls, 1, k)
            IN  [err |-> TRUE,
                 decls |-> [i \in 1..k |->
                              IF IsFuncNamed(front[i], "main")
                              THEN OwnMain(front[i].ver, VisibleBody(s.decls, s.body))
                              ELSE front[i]],
                 body |-> <<>>,
                 scope |-> HasMain(front)]
      [] text = "same" ->
            [err |-> FALSE,
             decls |-> [i \in 1..Len(s.decls) |->
                          IF IsFuncNamed(s.decls[i], "main") THEN Fn("main", 0, FALSE)
                          ELSE s.decls[i]],
             body |-> VisibleBody(s.decls, s.body),
             scope |-> TRUE]
      [] text = "new" ->
            [err |-> FALSE, decls |-> InitialDecls, body |-> << ExprStmt("println(0)") >>,
             scope |-> TRUE]
      [] OTHER ->
            [err |-> TRUE,
             decls |-> << Imp(<<PrinterPkg>>), Fn(printerName, 0, FALSE), TypedMain, Bad >>,
             body |-> <<>>,
             scope |-> TRUE]

\* actionEdit: the editor is looked up, the source is taken (s.source), the
\* editor runs, the text is parsed.  s.file is assigned before the error of
\* the parser is looked at; s.mainBody and the checkpoint only after it.
actionEdit(s, arg, env) ==
    LET p == ParseEdited(s, env.text)
        parsed == [s EXCEPT !.decls = p.decls,
                            !.body = p.body,
                            !.lastStmts = <<>>,
                            !.lastDecls = <<>>,
                            !.sharedDecls = FALSE,
                            !.scopeMain = p.scope]
    IN  IF env.o = "noeditor" THEN Done(s, Err("", "Couldn't find editor"), <<>>)
        ELSE IF sourcePanics(s) THEN Done(s, Panic, <<>>)
        ELSE IF env.o = "failed" THEN Done(s, Err("", "editor failed"), <<>>)
        ELSE IF p.err
        THEN Done([s EXCEPT !.decls = p.decls, !.sharedDecls = FALSE,
                            !.scopeMain = p.scope],
                  Err("", "syntax error"), <<>>)
        ELSE Done(parsed, RunError(env.ro), goRunFiles(parsed))

\* command.action(s, arg)
action(c, s, arg, env) ==
    CASE c.action = "actionImport" ->
            LET r == actionImport(s, arg)
            IN  Done(r.s, IF r.err THEN Err("", "import failed") ELSE NoErr, <<>>)
      [] c.action = "actionType" ->
            LET r == actionType(s, arg, env.o)
            IN  Done(r.s, IF r.err THEN Err("", "cannot get type") ELSE NoErr, <<>>)
      [] c.action = "actionPrint" -> actionPrint(s)
      [] c.action = "actionWrite" -> actionWrite(s, env)
      [] c.action = "actionClear" -> Done(init(s), NoErr, <<>>)
      [] c.action = "actionDoc"   -> actionDoc(s, arg, env)
      [] c.action = "actionHelp"  -> actionHelp(s)
      [] c.action = "actionQuit"  -> actionQuit(s)
      [] c.action = "actionEdit"  -> actionEdit(s, arg, env)
      [] OTHER                    -> actionRun(s, env)

\* invokeCommand putting the command name in front of ErrQuit too
wrapErr_Quit(c, e) ==
    IF e = NoErr THEN NoErr ELSE Err(c.name, e.msg)

\* invokeCommand, the error of the handler with the command name in front,
\* ErrQuit as it is
wrapErr(c, e) ==
    IF e = NoErr THEN NoErr
    ELSE IF e = ErrQuit THEN ErrQuit
    ELSE Err(c.name, e.msg)

\* invokeCommand behind the loop: r is what the handler of command c gave;
\* a handler that panics gives nothing
Wrapped(c, r) ==
    IF r.err = Panic THEN r ELSE Done(r.s, wrapErr(c, r.err), r.files)

\* invokeCommand: the loop over the registry, i the index of the command
\* that matches
Dispatch(s, i, arg, env) ==
    IF i = 0 THEN Done(s, Err("", "command not found"), <<>>)
    ELSE Wrapped(commands[i], action(commands[i], s, arg, env))

\* invokeCommand: t is the command word, letter by letter (<<>> when the
\* input is the colon alone), arg the rest of the input
invokeCommand(s, t, arg, env) ==
    IF t = <<>> THEN Done(s, NoErr, <<>>)
    ELSE Dispatch(s, CommandIndex(t), arg, env)

\* Eval: what it writes to s.stderr for the error of a command
stderrOf(err) == IF err \notin {NoErr, ErrQuit, Panic} THEN << err >> ELSE <<>>

(***************************************************************************)
(* The state machine                                                       *)
(***************************************************************************)
Snap(s) == [body |-> s.body, decls |-> s.decls]

Last(op, in, kind, err, ran, run, fix, restored, spliced, src) ==
    [op |-> op, in |-> in, kind |-> kind, err |-> err, ran |-> ran, run |-> run,
     fix |-> fix, restored |-> restored, spliced |-> spliced, src |-> src]

Init ==
    /\ decls = InitialDecls
    /\ body = <<>>
    /\ lastStmts = <<>>
    /\ lastDecls = <<>>
    /\ sharedDecls = FALSE
    /\ scopeMain = TRUE
    /\ autoImport \in BOOLEAN
    /\ extraFilePaths = <<>>
    /\ nEvals = 0
    /\ pre = [body |-> <<>>, decls |-> InitialDecls]
    /\ last = Last("init", "", "none", "nil", FALSE, "none", "none", FALSE,
                   [body |-> <<>>, decls |-> InitialDecls], <<>>)
    /\ out = Out(NoErr, <<>>, <<>>)
    /\ completion = [line |-> <<>>, cands |-> <<>>]
    /\ included = {}
    /\ submitted = [since |-> {}, before |-> {}]

\* the session s is the state after the Eval, the n-th at most; after a
\* panic there is no session
InstallWithin(s, n) ==
    /\ nEvals < n
    /\ out.ret # Panic
    /\ nEvals' = nEvals + 1
    /\ decls' = s.decls
    /\ body' = s.body
    /\ lastStmts' = s.lastStmts
    /\ lastDecls' = s.lastDecls
    /\ sharedDecls' = s.sharedDecls
    /\ scopeMain' = s.scopeMain
    /\ extraFilePaths' = s.extraFilePaths
    /\ pre' = Snap(Cur)
    /\ UNCHANGED <<autoImport, completion>>

Install(s) ==
    /\ InstallWithin(s, MaxEvals)
    /\ UNCHANGED <<included, submitted>>

\* the end of Eval(in) when the input parsed: r is what EvalCode gave
Ran(in, fo, ro, r) ==
    /\ r.ran
    /\ autoImport \/ fo = "ok"
    /\ Install(r.s)
    /\ last' = Last("eval", in, r.kind, r.err, TRUE, ro,
                    IF autoImport THEN fo ELSE "none",
                    r.restored, Snap(r.spliced), r.src)
    /\ out' = Out(IF ro = "ok" THEN NoErr ELSE ErrCmdRun, <<>>, r.files)

\* Eval(in) for an input that parses: spliced, fixed, run, maybe rolled back
EvalRun ==
    \E in \in CodeInputs, fo \in FixOutcomes, ro \in RunOutcomes :
        Ran(in, fo, ro, EvalCode(Cur, in, autoImport, fo, ro))

\* the end of Eval(in) when the input did not parse
Rejected(in, r) ==
    /\ ~r.ran
    /\ Install(r.s)
    /\ last' = Last("eval", in, r.kind, r.err, FALSE, "none", "none",
                    FALSE, Snap(r.spliced), <<>>)
    /\ out' = IF r.kind = "syntax"
              THEN Out(ErrSyntax, << ErrSyntax >>, <<>>)
              ELSE Out(ErrContinue, <<>>, <<>>)

\* Eval(in) for an input that does not parse
EvalReject ==
    \E in \in CodeInputs :
        Rejected(in, EvalCode(Cur, in, autoImport, "ok", "ok"))

ImportArgs ==
    { <<>>, <<"os">>, <<"fmt">>, <<"nopkg">>, <<"os", "nopkg">>, <<"nopkg", "os">>,
      <<"os", "fmt">> }

\* Eval(":import <arg>")
EvalImport ==
    \E arg \in ImportArgs :
        LET r == actionImport(storeCode(clearQuickFix(Cur)), arg)
        IN  /\ Install(r.s)
            /\ last' = Last("import", arg, "cmd", IF r.err THEN "error" ELSE "nil",
                            FALSE, "none", "none", FALSE, Snap(r.s), <<>>)
            /\ out' = LET e == wrapErr(commands[1],
                                       IF r.err THEN Err("", "import failed") ELSE NoErr)
                      IN  Out(e, stderrOf(e), <<>>)

\* Eval(":type <arg>")
EvalType ==
    \E arg \in {"", InExpr1, InOpen}, to \in TypeOutcomes :
        LET r == actionType(storeCode(clearQuickFix(Cur)), arg, to)
        IN  /\ ParseExpr(arg).err => to = "ok"
            /\ Install(r.s)
            /\ last' = Last("type", arg, "cmd", IF r.err THEN "error" ELSE "nil",
                            FALSE, "none", "none", arg # "", Snap(r.s), <<>>)
            /\ out' = LET e == wrapErr(commands[2],
                                       IF r.err THEN Err("", "cannot get type") ELSE NoErr)
                      IN  Out(e, stderrOf(e), <<>>)

\* Eval(":clear")
EvalClear ==
    /\ Install(init(storeCode(clearQuickFix(Cur))))
    /\ last' = Last("clear", "", "cmd", "nil", FALSE, "none", "none", FALSE,
                    [body |-> <<>>, decls |-> InitialDecls], <<>>)
    /\ out' = Out(NoErr, <<>>, <<>>)

Next == EvalRun \/ EvalReject \/ EvalImport \/ EvalType \/ EvalClear

Spec == Init /\ [][Next]_vars

(***************************************************************************)
(* The commands as steps of the session                                    *)
(***************************************************************************)
\* Eval(in) for a code input, the n-th Eval at most.  A tree that holds an
\* *ast.BadDecl does not compile, and imports.Process rejects its text.
Evaluated(in, fo, ro, n, r) ==
    /\ r.ran
    /\ autoImport \/ fo = "ok"
    /\ HasBad(decls) => ro # "ok"
    /\ (autoImport /\ HasBad(decls)) => fo = "error"
    /\ InstallWithin(r.s, n)
    /\ last' = Last("eval", in, r.kind, r.err, TRUE, ro,
                    IF autoImport THEN fo ELSE "none",
                    r.restored, Snap(r.spliced), r.src)
    /\ out' = Out(IF ro = "ok" THEN NoErr ELSE ErrCmdRun, <<>>, r.files)

RunInput(in, fo, ro, n) ==
    Evaluated(in, fo, ro, n, EvalCode(Cur, in, autoImport, fo, ro))

\* Eval(":<t> <arg>"), the n-th Eval at most; op and kind tell the history
\* which command and which outcome it was
Returned(op, kind, arg, env, n, r) ==
    /\ InstallWithin(r.s, n)
    /\ last' = Last(op, arg, kind,
                    IF r.err = NoErr THEN "nil"
                    ELSE IF r.err = ErrQuit THEN "quit" ELSE "error",
                    r.files # <<>>, IF r.files # <<>> THEN env.ro ELSE "none",
                    "none", FALSE, Snap(r.s), <<>>)
    /\ out' = Out(r.err, stderrOf(r.err), r.files)

Command(op, kind, t, arg, env, n) ==
    Returned(op, kind, arg, env, n,
             invokeCommand(storeCode(clearQuickFix(Cur)), t, arg, env))

NoEnv == Env("ok", "ok", "same")

CommandInputs == {InExpr1, InFuncF1, InFuncMain}

EvalInput ==
    \E in \in CommandInputs, fo \in FixOutcomes, ro \in RunOutcomes :
        /\ RunInput(in, fo, ro, MaxCommands)
        /\ UNCHANGED <<included, submitted>>

\* Eval(":q"), Eval(":quit")
EvalQuit ==
    \E t \in { <<"q">>, <<"q", "u", "i", "t">> }, arg \in {"", InExpr1} :
        /\ Command("quit", "cmd", t, arg, NoEnv, MaxCommands)
        /\ UNCHANGED <<included, submitted>>

\* Eval(":x"), Eval(":qx"), Eval(":imports")
EvalUnknown ==
    \E t \in { <<"x">>, <<"q", "x">>, <<"i", "m", "p", "o", "r", "t", "s">> } :
        /\ Command("unknown", "cmd", t, "", NoEnv, MaxCommands)
        /\ UNCHANGED <<included, submitted>>

\* Eval(":")
EvalColon ==
    /\ Command("colon", "cmd", <<>>, "", NoEnv, MaxCommands)
    /\ UNCHANGED <<included, submitted>>

\* Eval(":print")
EvalPrint ==
    /\ Command("print", "cmd", <<"p", "r", "i", "n", "t">>, "", NoEnv, MaxCommands)
    /\ UNCHANGED <<included, submitted>>

\* Eval(":w"), Eval(":w out.go")
EvalWrite ==
    \E arg \in {"", "out.go"}, o \in WriteOutcomes :
        /\ Command("write", o, <<"w">>, arg, Env(o, "ok", "same"), MaxCommands)
        /\ UNCHANGED <<included, submitted>>

\* Eval(":help")
EvalHelp ==
    /\ Command("help", "cmd", <<"h", "e", "l", "p">>, "", NoEnv, MaxCommands)
    /\ UNCHANGED <<included, submitted>>

\* Eval(":run"): Run prints s.file as it is, neither doQuickFix nor
\* fixImports is called
EvalRunCommand ==
    \E ro \in RunOutcomes :
        /\ HasBad(decls) => ro # "ok"
        /\ UnusedImport(decls, body) => ro # "ok"
        /\ Command("run", "cmd", <<"r", "u", "n">>, "", Env("ok", ro, "same"), MaxCommands)
        /\ UNCHANGED <<included, submitted>>

\* Eval(":doc <arg>")
EvalDoc ==
    \E arg \in {"", InExpr1, InOpen}, o \in DocOutcomes :
        /\ ParseExpr(arg).err => o = "ok"
        /\ Command("doc", o, <<"d", "o", "c">>, arg, Env(o, "ok", "same"), MaxCommands)
        /\ UNCHANGED <<included, submitted>>

\* Eval(":edit")
EvalEdit ==
    \E o \in EditOutcomes, text \in EditTexts, ro \in RunOutcomes :
        /\ o # "saved" => (text = "same" /\ ro = "ok")
        /\ text = "junk" => ro = "ok"
        /\ (o = "saved" /\ text # "junk" /\ ~HasBad(decls)
              /\ UnusedImport(ParseEdited(Cur, text).decls, ParseEdited(Cur, text).body))
             => ro # "ok"
        /\ Command("edit", IF o = "saved" THEN text ELSE o, <<"e">>, "",
                   Env(o, ro, text), MaxCommands)
        /\ UNCHANGED <<included, submitted>>

\* Eval(":i <arg>")
CommandImport ==
    \E arg \in ImportArgs :
        /\ Command("import", "cmd", <<"i">>, arg, NoEnv, MaxCommands)
        /\ UNCHANGED <<included, submitted>>

\* Eval(":t <arg>")
CommandType ==
    \E arg \in {"", InExpr1, InOpen}, to \in TypeOutcomes :
        /\ ParseExpr(arg).err => to = "ok"
        /\ Command("type", to, <<"t">>, arg, Env(to, "ok", "same"), MaxCommands)
        /\ UNCHANGED <<included, submitted>>

\* Eval(":clear")
CommandClear ==
    /\ Command("clear", "cmd", <<"c", "l", "e", "a", "r">>, "", NoEnv, MaxCommands)
    /\ UNCHANGED <<included, submitted>>

NextCommands ==
    \/ EvalInput \/ CommandImport \/ CommandType \/ CommandClear
    \/ EvalQuit \/ EvalUnknown \/ EvalColon \/ EvalPrint \/ EvalWrite
    \/ EvalHelp \/ EvalRunCommand \/ EvalDoc \/ EvalEdit

SpecCommands == Init /\ [][NextCommands]_vars

(***************************************************************************)
(* Sessions with included files and clear                                  *)
(***************************************************************************)
Since(xs) == [submitted EXCEPT !.since = submitted.since \cup xs]

ClearInputs == {InExpr1, InFuncF1}

Included(f, o, s) ==
    /\ decls' = s.decls
    /\ body' = s.body
    /\ lastStmts' = s.lastStmts
    /\ lastDecls' = s.lastDecls
    /\ sharedDecls' = s.sharedDecls
    /\ scopeMain' = s.scopeMain
    /\ extraFilePaths' = s.extraFilePaths
    /\ pre' = Snap(Cur)
    /\ last' = Last("include", f.name, o, "nil", FALSE, "none", "none", FALSE,
                    Snap(s), <<>>)
    /\ out' = Out(NoErr, <<>>, <<>>)
    /\ included' = {s.extraFilePaths[i] : i \in 1..Len(s.extraFilePaths)} \cup included
    /\ submitted' = IF o = "ok" THEN Since({f.imports[i] : i \in 1..Len(f.imports)})
                    ELSE submitted
    /\ UNCHANGED <<autoImport, nEvals, completion>>

\* s.includeFile(f), at most MaxFiles times
IncludeFile ==
    \E f \in IncludeFiles, o \in IncludeOutcomes :
        /\ Cardinality(included) < MaxFiles
        /\ Included(f, o, includeFile(Cur, f, o, ExtPaths[Cardinality(included) + 1]))

\* Eval(in) with the run succeeding or exiting with status 2
SubmitInput ==
    \E in \in ClearInputs, ro \in {"ok", "exit2"} :
        /\ RunInput(in, "ok", ro, MaxSteps)
        /\ submitted' = Since({in})
        /\ UNCHANGED included

\* Eval(":import os")
SubmitImport ==
    /\ Command("import", "cmd", <<"i">>, <<"os">>, NoEnv, MaxSteps)
    /\ submitted' = Since({"os"})
    /\ UNCHANGED included

\* Eval(":clear")
SubmitClear ==
    /\ Command("clear", "cmd", <<"c", "l", "e", "a", "r">>, "", NoEnv, MaxSteps)
    /\ submitted' = [since |-> {}, before |-> submitted.before \cup submitted.since]
    /\ UNCHANGED included

\* Eval(":r")
SubmitRun ==
    \E ro \in RunOutcomes :
        /\ UnusedImport(decls, body) => ro # "ok"
        /\ Command("run", "cmd", <<"r">>, "", Env("ok", ro, "same"), MaxSteps)
        /\ UNCHANGED <<included, submitted>>

NextClear == IncludeFile \/ SubmitInput \/ SubmitImport \/ SubmitClear \/ SubmitRun

SpecClear == Init /\ [][NextClear]_vars

(***************************************************************************)
(* Completion of command names                                             *)
(***************************************************************************)
\* the directive prefixes typed: ":", " : :" and " : : "
Leads ==
    { << ":" >>, << " ", ":", " ", ":" >>, << " ", ":", " ", ":", " " >> }

\* the letters typed behind them: nothing, the beginnings of the command
\* names, and words that begin no registered name
NamePrefixes ==
    UNION { { SubSeq(FullName(registeredCommands[i]), 1, k) :
                k \in 0..Len(FullName(registeredCommands[i])) } :
              i \in 1..Len(registeredCommands) }
      \cup { << "x" >>, << "d", "a" >>, << "i", "n" >>, << "q", "u", "i", "t", "s" >> }

\* s.completeWord(line, pos) with line[:pos] = lead + name
CompleteWord ==
    \E lead \in Leads, name \in NamePrefixes :
        /\ completion' = [line |-> << lead, name >>, cands |-> completeWord(lead, name)]
        /\ UNCHANGED <<decls, body, lastStmts, lastDecls, sharedDecls, scopeMain,
                       autoImport, extraFilePaths,
                       nEvals, pre, last, out, included, submitted>>

SpecComplete == Init /\ [][CompleteWord]_vars

(***************************************************************************)
(* Properties                                                              *)
(***************************************************************************)
EvalOf(kinds) == last.op = "eval" /\ last.kind \in kinds

CountFunc(ds, n) == Cardinality({i \in 1..Len(ds) : IsFuncNamed(ds[i], n)})

CountImport(ds, q) ==
    Cardinality({<<i, j>> \in (1..Len(ds)) \X (1..3) :
                    /\ ds[i].kind = "import"
                    /\ j <= Len(ds[i].paths)
                    /\ ds[i].paths[j] = q})

\* the statements an input contributes to the body
Contribution(in) ==
    CASE in \in ExprInputs -> << PrintCall(<<in>>) >>
      [] in = InAssign   -> << AssignStmt(<<"x", "_", "y">>, ":= f()"), PrintCall(<<"x", "y">>) >>
      [] in = InDiscard  -> << AssignStmt(<<"_", "_", "_">>, "= f()") >>
      [] in = InNoAssign -> << AssignStmt(<<"x">>, ":= 1"), ExprStmt("println(x)") >>
      [] OTHER           -> <<>>

\* C1: after an Eval whose run failed and was rolled back by restoreCode,
\* the cached body and the serialized declarations equal those at the time
\* the input was submitted.
C1_RollbackRestoresProgram ==
    (last.op = "eval" /\ last.restored)
        => /\ body = pre.body
           /\ Source(decls, body) = Source(pre.decls, pre.body)

C3_SuccessAppends ==
    (EvalOf({"expr", "stmt"}) /\ last.run = "ok")
        => VisibleBody(decls, body)
             = VisibleBody(pre.decls, pre.body) \o Contribution(last.in)

\* C4: after a function declaration input whose run succeeded, the
\* declaration sequence holds exactly one function of that name, and it is
\* the one just submitted.
C4_RedefinitionReplaces ==
    (EvalOf({"func"}) /\ last.run = "ok")
        => LET d == ParseDecls(last.in).decls[1]
               i == FuncIndex(decls, d.name)
           IN  /\ CountFunc(decls, d.name) = 1
               /\ d.name # "main" => decls[i] = d
               /\ d.name = "main" => VisibleBody(decls, body) = OwnBody(d)

C4_Witness ==
    /\ EvalOf({"func"})
    /\ last.run = "ok"
    /\ last.in = InFuncF2
    /\ FuncIndex(pre.decls, "f") # 0
    /\ pre.decls[FuncIndex(pre.decls, "f")].ver = 1

\* C5: exactly one declaration of main, exactly one of the print helper,
\* and no two function declarations of the same name.
C5_UniqueFunctions ==
    /\ CountFunc(decls, "main") = 1
    /\ CountFunc(decls, printerName) = 1
    /\ \A i, j \in 1..Len(decls) :
          (decls[i].kind = "func" /\ decls[j].kind = "func"
             /\ decls[i].name = decls[j].name) => i = j

C5_Witness ==
    /\ EvalOf({"func"})
    /\ last.restored
    /\ last.in = InFuncP
    /\ CountFunc(decls, "f") = 1

\* C6: a successful import leaves each named path imported exactly once,
\* and changes nothing when the paths were imported already.
C6_ImportIdempotent ==
    (last.op = "import" /\ last.in # <<>>
       /\ \A k \in 1..Len(last.in) : last.in[k] \in Resolvable)
        => /\ last.err = "nil"
           /\ \A k \in 1..Len(last.in) : CountImport(decls, last.in[k]) = 1
           /\ (\A k \in 1..Len(last.in) : CountImport(pre.decls, last.in[k]) = 1)
                 => decls = pre.decls

C6_Witness ==
    /\ last.op = "import"
    /\ last.in = <<"os">>
    /\ CountImport(pre.decls, "os") = 1
    /\ decls = pre.decls

\* C7: an import command that fails leaves the Program as it was.
C7_FailedImportNoChange ==
    (last.op = "import" /\ last.err = "error")
        => decls = pre.decls /\ body = pre.body

\* C8: a statement list is appended followed by one print call of the
\* non-blank left-hand sides of its final assignment, if there are any.
C8_PrintsLastAssigned ==
    EvalOf({"stmt"})
        => /\ last.spliced.body = pre.body \o Contribution(last.in)
           /\ last.spliced.decls = pre.decls

C8_Witness ==
    /\ EvalOf({"stmt"})
    /\ last.in = InAssign
    /\ pre.body # <<>>
    /\ last.spliced.body[Len(last.spliced.body)] = PrintCall(<<"x", "y">>)

\* C9: an input that is no expression, statement list or single function
\* declaration yields ErrContinue, or a syntax error when it holds an
\* illegal token; body and declarations stay and nothing is run.
C9_RejectedInputNoChange ==
    (last.op = "eval" /\ last.in \in BadInputs)
        => /\ last.err = (IF last.in = InIllegal THEN "syntax" ELSE "ErrContinue")
           /\ ~last.ran
           /\ body = pre.body
           /\ decls = pre.decls

C9_Witness ==
    /\ last.op = "eval"
    /\ last.in = InTwoFuncs
    /\ last.err = "ErrContinue"
    /\ Len(decls) > 3

\* C10: the splice is that of the first interpretation that parses, in the
\* order expression, statement list, declaration; nothing else changes.
C10_FirstInterpretationWins ==
    last.op = "eval"
        => LET in == last.in
               sp == last.spliced
               d == ParseDecls(in)
           IN  IF ~ParseExpr(in).err
               THEN /\ last.kind = "expr"
                    /\ sp.body = pre.body \o << PrintCall(<<in>>) >>
                    /\ sp.decls = pre.decls
               ELSE IF ~ParseStmts(in).err
               THEN /\ last.kind = "stmt"
                    /\ SubSeq(sp.body, 1, Len(pre.body) + Len(ParseStmts(in).stmts))
                         = pre.body \o ParseStmts(in).stmts
                    /\ sp.decls = pre.decls
               ELSE IF ~d.err /\ Len(d.decls) = 1 /\ d.decls[1].kind = "func"
               THEN /\ last.kind = "func"
                    /\ sp.body = pre.body
                    /\ sp.decls[Len(sp.decls)] = d.decls[1]
               ELSE /\ last.kind \in {"continue", "syntax"}
                    /\ sp.body = pre.body
                    /\ sp.decls = pre.decls

C10_Witness ==
    /\ EvalOf({"expr"})
    /\ ~ParseStmts(last.in).err
    /\ pre.body # <<>>
    /\ body = pre.body \o << PrintCall(<<last.in>>) >>

\* the session right after the splice of the last Eval, the checkpoint taken
\* at its start
Spliced ==
    [Cur EXCEPT !.decls = last.spliced.decls,
                !.body = last.spliced.body,
                !.lastStmts = pre.body,
                !.lastDecls = pre.decls]

\* C11: restoreCode twice gives the body and the declarations of restoreCode
\* once, and restoreCode right after storeCode gives those before it; in
\* the state an Eval leaves and in the state its splice leaves.
C11_RestoreIdempotent ==
    /\ Snap(restoreCode(restoreCode(Cur))) = Snap(restoreCode(Cur))
    /\ Snap(restoreCode(restoreCode(Spliced))) = Snap(restoreCode(Spliced))
    /\ Snap(restoreCode(storeCode(Cur))) = Snap(Cur)
    /\ Snap(restoreCode(storeCode(Spliced))) = Snap(Spliced)

C11_Witness ==
    /\ EvalOf({"func"})
    /\ ~last.restored
    /\ Snap(restoreCode(Cur)) # Snap(Cur)
    /\ lastStmts # <<>>
    /\ Len(decls) > 3

\* C15: after a function declaration input that was rolled back, a function
\* name that was new is gone, a function that was redefined is the
\* checkpoint's, and the entry point has the content it had before the input.
C15_RollbackOfDeclaration ==
    (EvalOf({"func"}) /\ last.restored)
        => LET d == ParseDecls(last.in).decls[1]
               was == FuncIndex(pre.decls, d.name)
               is == FuncIndex(decls, d.name)
           IN  /\ was = 0 => is = 0
               /\ (was # 0 /\ d.name # "main") => (is # 0 /\ decls[is] = pre.decls[was])
               /\ VisibleBody(decls, body) = VisibleBody(pre.decls, pre.body)

\* C16: when Eval has rolled back, the checkpoint is the body and the
\* declarations of the start of that Eval, and what earlier inputs put into
\* the Program is still there: the statements of the entry point begin with
\* those it had, every function it had is declared.
C16_OneDeepCheckpoint ==
    (last.op = "eval" /\ last.restored)
        => /\ lastStmts = pre.body
           /\ lastDecls = pre.decls
           /\ HasPrefix(VisibleBody(decls, body), VisibleBody(pre.decls, pre.body))
           /\ \A i \in 1..Len(pre.decls) :
                 (pre.decls[i].kind = "func" /\ pre.decls[i].name # "main")
                    => FuncIndex(decls, pre.decls[i].name) # 0

\* when fixImports is not called, or fails before it has parsed the text
\* imports.Process returns, the Program that is run and the tree the session
\* keeps are those the splice left
SkippedNormalizationKeepsSplice ==
    (last.op = "eval" /\ last.ran /\ last.fix \in {"none", "error"})
        => /\ last.src = Source(last.spliced.decls, last.spliced.body)
           /\ ~last.restored => /\ decls = last.spliced.decls
                                /\ body = last.spliced.body

\* C17: fixImports is called only with auto-import on, and when one of its
\* steps fails (printing, imports.Process, parsing the normalized text) the
\* Program that is run is the one the splice left, the tree of declarations
\* is the one the splice left, and Eval goes on to run.
C17_FixImportsBestEffort ==
    (last.op = "eval" /\ last.kind \in {"expr", "stmt", "func"})
        => /\ last.ran
           /\ out.files # <<>>
           /\ ~autoImport => last.fix = "none"
           /\ last.fix \in {"none", "error", "unparsed"}
                 => /\ last.src = Source(last.spliced.decls, last.spliced.body)
                    /\ ~last.restored => /\ decls = last.spliced.decls
                                         /\ body = last.spliced.body

\* C13: quit makes Eval return ErrQuit itself, nothing is written to
\* s.stderr and the Program stays; any other error of a command, and an
\* unknown command name, is written to s.stderr and returned, the error of
\* a handler with the command name in front.  A handler that panics
\* returns no error.
C13_QuitSentinel ==
    /\ last.op = "quit"
          => /\ out.ret = ErrQuit
             /\ out.stderr = <<>>
             /\ body = pre.body
             /\ decls = pre.decls
    /\ last.op = "unknown"
          => /\ out.ret = Err("", "command not found")
             /\ out.stderr = << out.ret >>
    /\ (last.op \in {"import", "type", "doc", "write", "edit", "run"}
          /\ out.ret \notin {NoErr, Panic})
          => /\ out.ret # ErrQuit
             /\ out.ret.cmd # ""
             /\ out.stderr = << out.ret >>
    /\ last.op \notin {"init", "eval"} /\ out.ret = NoErr => out.stderr = <<>>

C13_Witness ==
    /\ last.op = "quit"
    /\ out.ret = ErrQuit
    /\ out.stderr = <<>>
    /\ body # <<>>

\* C18: the cached body is the body of the declaration of main in the
\* declaration sequence.
C18_CachedBodyIsMainBody ==
    /\ HasMain(decls)
    /\ ~MainDeclOf(decls).own

\* C19: type, doc, print, write, help, quit, run and an unknown command
\* leave the body and the declaration sequence as they were.
C19_ReadOnlyCommands ==
    last.op \in {"type", "doc", "print", "write", "help", "quit", "run", "unknown", "colon"}
        => /\ body = pre.body
           /\ decls = pre.decls

C19_Witness ==
    /\ last.op = "doc"
    /\ last.in = InExpr1
    /\ last.kind = "nodoc"
    /\ body # <<>>
    /\ body = pre.body

\* C12: every run is given every file included so far, and the main
\* scratch file.
C12_AuxiliaryFilesPersist ==
    out.files # <<>>
        => /\ \A f \in included : InSeq(f, out.files)
           /\ InSeq(tempFilePath, out.files)

\* C20: after clear the Program is the initial one and the checkpoint is
\* empty; from then on the Program holds only statements, functions and
\* imports of the inputs given since.
C20_ClearResets ==
    /\ last.op = "clear"
          => /\ decls = InitialDecls
             /\ body = <<>>
             /\ lastStmts = <<>>
             /\ lastDecls = <<>>
    /\ \A i \in 1..Len(body) :
          \E in \in submitted.since \cap CodeInputs : InSeq(body[i], Contribution(in))
    /\ \A i \in 1..Len(decls) :
          decls[i].kind = "func"
             => \/ decls[i] \in {InitialDecls[2], InitialDecls[3]}
                \/ \E in \in submitted.since \cap FuncInputs :
                      decls[i] = ParseDecls(in).decls[1]
    /\ \A q \in Resolvable :
          CountImport(decls, q) > 0 => (q = PrinterPkg \/ q \in submitted.since)

C20_Witness ==
    /\ last.op = "eval"
    /\ last.restored
    /\ InFuncF1 \in submitted.before
    /\ "os" \in submitted.before
    /\ submitted.since = {InExpr1}
    /\ decls = InitialDecls
    /\ body = <<>>

\* the commands C14 lists, in its order, and whether they take an argument
ListedCommands ==
    << << <<"i", "m", "p", "o", "r", "t">>, TRUE >>,
       << <<"t", "y", "p", "e">>, TRUE >>,
       << <<"p", "r", "i", "n", "t">>, FALSE >>,
       << <<"w", "r", "i", "t", "e">>, TRUE >>,
       << <<"c", "l", "e", "a", "r">>, FALSE >>,
       << <<"d", "o", "c">>, TRUE >>,
       << <<"h", "e", "l", "p">>, FALSE >>,
       << <<"q", "u", "i", "t">>, FALSE >>,
       << <<"e", "d", "i", "t">>, TRUE >>,
       << <<"r", "u", "n">>, FALSE >>,
       << <<"d", "e", "f", "i", "n", "e">>, TRUE >> >>

\* C14: the candidates for a directive prefix are the listed commands whose
\* name begins with the letters typed, in the listed order, each the full
\* name behind the prefix, with a blank exactly when the command takes an
\* argument.
C14_CompletionCandidates ==
    completion.line # <<>>
        => LET lead == completion.line[1]
               name == completion.line[2]
               hits == SelectSeq(ListedCommands, LAMBDA c : HasPrefix(c[1], name))
           IN  completion.cands =
                 [i \in 1..Len(hits) |->
                    lead \o hits[i][1] \o (IF hits[i][2] THEN << " " >> ELSE <<>>)]

\* the eleven candidates of s.completeWord(" : :", 4), define with its blank
\* the last of them
C14_Witness ==
    /\ completion.line = << << " ", ":", " ", ":" >>, <<>> >>
    /\ Len(completion.cands) = 11
    /\ completion.cands[1] = << " ", ":", " ", ":", "i", "m", "p", "o", "r", "t", " " >>
    /\ completion.cands[10] = << " ", ":", " ", ":", "r", "u", "n" >>
    /\ completion.cands[11] = << " ", ":", " ", ":", "d", "e", "f", "i", "n", "e", " " >>

====
